---- MODULE Spec2Model ----
(***************************************************************************)
(* A model of market_analysis.py: the MarketAnalysis instance (its price   *)
(* frame, the daily frame built at construction, the memoized regime       *)
(* calendar) and its two public operations, classify_regimes and           *)
(* analyze_performance.                                                    *)
(*                                                                         *)
(* Numbers.  The program computes in floating point.  Here every cell of   *)
(* a frame is an exact rational [n |-> numerator, d |-> denominator] kept  *)
(* in lowest terms with d > 0, and the missing value NaN is 0/0.  Rounding *)
(* is therefore not modelled.  The Sharpe ratio divides by a square root;  *)
(* it is kept as the pair (annualized return, annualized volatility        *)
(* squared).                                                               *)
(***************************************************************************)
EXTENDS Integers, Sequences, FiniteSets, TLC

VARIABLES data, initial_capital, daily_data, regimes, trades_df,
          returned, results, trades_with_regimes, first_calendar, reclassified

vars == <<data, initial_capital, daily_data, regimes, trades_df,
          returned, results, trades_with_regimes, first_calendar, reclassified>>

(***************************************************************************)
(* Exact rationals with a missing value.                                   *)
(***************************************************************************)
AbsInt(a) == IF a < 0 THEN -a ELSE a

RECURSIVE GCD(_, _)
GCD(a, b) == IF b = 0 THEN a ELSE GCD(b, a % b)

LCM(a, b) == (a \div GCD(a, b)) * b

NaN == [n |-> 0, d |-> 0]

IsNaN(x) == x.d = 0

\* n/d in lowest terms; d > 0 is required
Frac(n, d) ==
    LET g == GCD(AbsInt(n), d)
    IN  [n |-> n \div g, d |-> d \div g]

Rat(k) == [n |-> k, d |-> 1]

\* float arithmetic: NaN in, NaN out
RAdd(a, b) ==
    IF IsNaN(a) \/ IsNaN(b) THEN NaN
    ELSE LET l == LCM(a.d, b.d)
         IN  Frac(a.n * (l \div a.d) + b.n * (l \div b.d), l)

RNeg(a) == IF IsNaN(a) THEN NaN ELSE [n |-> -a.n, d |-> a.d]

RSub(a, b) == RAdd(a, RNeg(b))

RAbs(a) == IF IsNaN(a) THEN NaN ELSE [n |-> AbsInt(a.n), d |-> a.d]

RMul(a, b) ==
    IF IsNaN(a) \/ IsNaN(b) THEN NaN
    ELSE LET g1 == GCD(AbsInt(a.n), b.d)
             g2 == GCD(AbsInt(b.n), a.d)
         IN  Frac((a.n \div g1) * (b.n \div g2), (a.d \div g2) * (b.d \div g1))

\* a / b; a zero divisor is not reached by the program paths modelled here
\* except 0/0, which is NaN as in floating point
RDiv(a, b) ==
    IF IsNaN(a) \/ IsNaN(b) \/ b.n = 0 THEN NaN
    ELSE IF b.n > 0 THEN RMul(a, [n |-> b.d, d |-> b.n])
    ELSE RMul(a, [n |-> -b.d, d |-> -b.n])

\* the comparisons of floats: every comparison with NaN is false
RLt(a, b) == ~IsNaN(a) /\ ~IsNaN(b) /\ RSub(a, b).n < 0
RGt(a, b) == RLt(b, a)
RLe(a, b) == ~IsNaN(a) /\ ~IsNaN(b) /\ RSub(a, b).n <= 0
RGe(a, b) == RLe(b, a)

Range(s) == {s[i] : i \in 1..Len(s)}

RECURSIVE RSum(_)
RSum(s) == IF s = <<>> THEN Rat(0) ELSE RAdd(s[1], RSum(Tail(s)))

\* the subsequence of s at the positions whose element satisfies Keep
RECURSIVE SelectIdx(_, _, _)
SelectIdx(s, keep, i) ==
    IF i > Len(s) THEN <<>>
    ELSE (IF i \in keep THEN <<s[i]>> ELSE <<>>) \o SelectIdx(s, keep, i + 1)

\* the elements of a finite set of integers in ascending order
RECURSIVE SortedSeq(_)
SortedSeq(S) ==
    IF S = {} THEN <<>>
    ELSE LET m == CHOOSE x \in S : \A y \in S : x <= y
         IN  <<m>> \o SortedSeq(S \ {m})

(***************************************************************************)
(* The parameters set in __init__.                                         *)
(***************************************************************************)
short_ma == 20
long_ma == 200
vol_window == 21

(***************************************************************************)
(* pandas primitives used by _prepare_daily_data.                          *)
(***************************************************************************)
\* the values of column col over the rows of one date, in row order
GroupCol(rows, date, col) ==
    LET keep == {i \in 1..Len(rows) : rows[i].date = date}
        g == SelectIdx(rows, keep, 1)
    IN  [i \in 1..Len(g) |-> g[i][col]]

\* the non-missing values of a column, in order (groupby aggregations skip NaN)
Valid(s) == SelectIdx(s, {i \in 1..Len(s) : ~IsNaN(s[i])}, 1)

GroupFirst(s) == IF Valid(s) = <<>> THEN NaN ELSE Valid(s)[1]

GroupLast(s) == IF Valid(s) = <<>> THEN NaN ELSE Valid(s)[Len(Valid(s))]

GroupMax(s) ==
    IF Valid(s) = <<>> THEN NaN
    ELSE CHOOSE x \in Range(Valid(s)) : \A y \in Range(Valid(s)) : RGe(x, y)

GroupMin(s) ==
    IF Valid(s) = <<>> THEN NaN
    ELSE CHOOSE x \in Range(Valid(s)) : \A y \in Range(Valid(s)) : RLe(x, y)

GroupSum(s) == RSum(Valid(s))

\* Series.ffill: a missing cell takes the last value before it, if any
RECURSIVE Ffill(_, _)
Ffill(s, i) ==
    IF i = 0 THEN NaN
    ELSE IF ~IsNaN(s[i]) THEN s[i] ELSE Ffill(s, i - 1)

\* Series.ewm(span, min_periods=1).mean() at position t (adjust=True,
\* ignore_na=False): the weighted sum and the weight sum both decay by
\* 1 - alpha = (span-1)/(span+1) per row, and a present value enters with
\* weight 1.  Before the first present value the weight sum is 0 and the mean NaN.
RECURSIVE EwmWeighted(_, _, _)
EwmWeighted(s, t, span) ==
    IF t = 0 THEN [w |-> Rat(0), sum_wt |-> Rat(0)]
    ELSE LET old == EwmWeighted(s, t - 1, span)
             decay == Frac(span - 1, span + 1)
         IN  IF IsNaN(s[t])
             THEN [w |-> RMul(decay, old.w), sum_wt |-> RMul(decay, old.sum_wt)]
             ELSE [w |-> RAdd(RMul(decay, old.w), s[t]),
                   sum_wt |-> RAdd(RMul(decay, old.sum_wt), Rat(1))]

\* the same mean with min_periods=2: no value until two are present
EwmMeanMinPeriods2(s, span) ==
    [t \in 1..Len(s) |->
        LET e == EwmWeighted(s, t, span)
        IN  IF Cardinality({i \in 1..t : ~IsNaN(s[i])}) < 2 THEN NaN
            ELSE RDiv(e.w, e.sum_wt)]

EwmMean(s, span) ==
    [t \in 1..Len(s) |->
        LET e == EwmWeighted(s, t, span) IN RDiv(e.w, e.sum_wt)]

FillZero(x) == IF IsNaN(x) THEN Rat(0) ELSE x

RMax(a, b) == IF RGe(a, b) THEN a ELSE b

\* lines 107-111 and tr.max(axis=1): the true range of row i of the daily frame
TrueRange(high, low, close, i) ==
    LET pc == IF i = 1 THEN NaN ELSE close[i - 1]
        h_l == FillZero(RSub(high[i], low[i]))
        h_pc == FillZero(RAbs(RSub(high[i], pc)))
        l_pc == FillZero(RAbs(RSub(low[i], pc)))
    IN  RMax(RMax(h_l, h_pc), l_pc)

Columns == {"open", "high", "low", "close", "volume", "ma_short", "ma_long", "atr"}

\* DataFrame.dropna(): the rows with no missing cell, in order
DropNa(rows) ==
    SelectIdx(rows, {i \in 1..Len(rows) : \A c \in Columns : ~IsNaN(rows[i][c])}, 1)

\* lines 91-113: one row per date of the 'date' column (groupby sorts its keys),
\* forward-filled, with the indicators
DailyFrame(rows) ==
    LET dates == SortedSeq({rows[i].date : i \in 1..Len(rows)})
        n == Len(dates)
        agg(col, f) == [i \in 1..n |->
                          LET g == GroupCol(rows, dates[i], col)
                          IN  CASE f = "first" -> GroupFirst(g)
                                [] f = "max" -> GroupMax(g)
                                [] f = "min" -> GroupMin(g)
                                [] f = "last" -> GroupLast(g)
                                [] OTHER -> GroupSum(g)]
        opn0 == agg("open", "first")
        high0 == agg("high", "max")
        low0 == agg("low", "min")
        close0 == agg("close", "last")
        vol0 == agg("volume", "sum")
        opn == [i \in 1..n |-> Ffill(opn0, i)]
        high == [i \in 1..n |-> Ffill(high0, i)]
        low == [i \in 1..n |-> Ffill(low0, i)]
        close == [i \in 1..n |-> Ffill(close0, i)]
        vol == [i \in 1..n |-> Ffill(vol0, i)]
        ma_s == EwmMean(close, short_ma)
        ma_l == EwmMean(close, long_ma)
        tr == [i \in 1..n |-> TrueRange(high, low, close, i)]
        atr == EwmMean(tr, vol_window)
    IN  [i \in 1..n |->
            [date |-> dates[i], open |-> opn[i], high |-> high[i], low |-> low[i],
             close |-> close[i], volume |-> vol[i], ma_short |-> ma_s[i],
             ma_long |-> ma_l[i], atr |-> atr[i]]]

\* _prepare_daily_data: the value it leaves in self.daily_data
prepare_daily_data(d) ==
    IF d.has_date THEN DropNa(DailyFrame(d.rows)) ELSE DropNa(d.rows)

(***************************************************************************)
(* classify_regimes.                                                       *)
(***************************************************************************)
\* TrendRegime and VolatilityRegime: the values of the enumerations, in order
TrendRegime == <<"uptrend", "downtrend", "sideways", "unclassified">>
VolatilityRegime == <<"high", "medium", "low">>

\* the label of a cell no assignment has reached (an object Series starts all-NaN)
NoLabel == "nan"

\* series[mask] = value
AssignWhere(series, mask, value) ==
    [i \in 1..Len(series) |-> IF mask[i] THEN value ELSE series[i]]

\* the percentiles of line 135, in hundredths
Q_LOW == 33
Q_HIGH == 67

\* the k-th smallest value of a sequence of rationals (k from 1)
Kth(vals, k) ==
    CHOOSE v \in Range(vals) :
        /\ Cardinality({i \in 1..Len(vals) : RLt(vals[i], v)}) < k
        /\ k <= Cardinality({i \in 1..Len(vals) : RLe(vals[i], v)})

\* Series.quantile(pct/100): linear interpolation lo + f * (hi - lo) between two
\* neighbouring order statistics.  The interpolated value can need more digits
\* than TLC's integers hold, so the quantile is kept as (lo, hi, f in
\* hundredths) and compared exactly by QuantileCmp.
Quantile(vals, pct) ==
    LET pos == pct * (Len(vals) - 1)
        lo == (pos \div 100) + 1
        hi == IF lo < Len(vals) THEN lo + 1 ELSE lo
    IN  [lo |-> Kth(vals, lo), hi |-> Kth(vals, hi), f |-> pos % 100]

\* the sign of x - (q.lo + q.f/100 * (q.hi - q.lo)), exactly
QuantileCmp(x, q) ==
    LET a == RSub(x, q.lo)
        b == RSub(q.hi, q.lo)
    IN  IF b.n = 0 THEN a.n
        ELSE LET r == RDiv(a, b)                \* compare r with f/100
                 rest == r.n - q.f * (r.d \div 100)
             IN  IF rest >= 100 THEN 1
                 ELSE IF rest < 0 THEN -1
                 ELSE 100 * rest - q.f * (r.d % 100)

\* the trend labels with close >= ma_long for above_long_ma
TrendLabelsGe(dd) ==
    LET n == Len(dd)
        above_long_ma == [i \in 1..n |-> RGe(dd[i].close, dd[i].ma_long)]
        rising_short_ma ==
            [i \in 1..n |-> i > 1 /\ RGt(dd[i].ma_short, dd[i - 1].ma_short)]
        all == [i \in 1..n |-> above_long_ma[i] /\ rising_short_ma[i]]
        any == [i \in 1..n |-> above_long_ma[i] \/ rising_short_ma[i]]
        t0 == [i \in 1..n |-> NoLabel]
        t1 == AssignWhere(t0, all, TrendRegime[1])
        t2 == AssignWhere(t1, [i \in 1..n |-> ~any[i]], TrendRegime[2])
    IN  AssignWhere(t2, [i \in 1..n |-> t2[i] = NoLabel], TrendRegime[3])

\* lines 125-133: the trend labels of the daily frame
TrendLabels(dd) ==
    LET n == Len(dd)
        above_long_ma == [i \in 1..n |-> RGt(dd[i].close, dd[i].ma_long)]
        rising_short_ma ==
            [i \in 1..n |-> i > 1 /\ RGt(dd[i].ma_short, dd[i - 1].ma_short)]
        all == [i \in 1..n |-> above_long_ma[i] /\ rising_short_ma[i]]
        any == [i \in 1..n |-> above_long_ma[i] \/ rising_short_ma[i]]
        t0 == [i \in 1..n |-> NoLabel]
        t1 == AssignWhere(t0, all, TrendRegime[1])
        t2 == AssignWhere(t1, [i \in 1..n |-> ~any[i]], TrendRegime[2])
    IN  AssignWhere(t2, [i \in 1..n |-> t2[i] = NoLabel], TrendRegime[3])

\* lines 135-139: the volatility labels of the daily frame
VolatilityLabels(dd) ==
    LET n == Len(dd)
        atr == [i \in 1..n |-> dd[i].atr]
        q33 == Quantile(atr, Q_LOW)
        q67 == Quantile(atr, Q_HIGH)
        v0 == [i \in 1..n |-> NoLabel]
        v1 == AssignWhere(v0, [i \in 1..n |-> QuantileCmp(atr[i], q33) <= 0],
                          VolatilityRegime[3])
        v2 == AssignWhere(v1, [i \in 1..n |-> QuantileCmp(atr[i], q67) >= 0],
                          VolatilityRegime[1])
    IN  AssignWhere(v2, [i \in 1..n |-> v2[i] = NoLabel], VolatilityRegime[2])

\* lines 141-145: the regime calendar, indexed like the daily frame
RegimeCalendar(dd) ==
    LET t == TrendLabels(dd)
        v == VolatilityLabels(dd)
    IN  [i \in 1..Len(dd) |->
            [date |-> dd[i].date, trend |-> t[i], volatility |-> v[i],
             atr |-> dd[i].atr]]

(***************************************************************************)
(* analyze_performance and _calculate_regime_sharpe.                       *)
(***************************************************************************)
\* entry_time counts ticks; TimesOfDay are the ticks of one day
TimesOfDay == {0, 1}
TicksPerDay == Cardinality(TimesOfDay)

\* pd.to_datetime(entry_time).dt.date
DateOf(entry_time) == entry_time \div TicksPerDay

\* pnl / self.initial_capital * 100
ReturnPct(pnl, capital) == RMul(RDiv(pnl, capital), Rat(100))

\* the join with how='inner': a trade without a calendar row is dropped
RECURSIVE MergeInner(_, _)
MergeInner(left, cal) ==
    IF left = <<>> THEN <<>>
    ELSE LET t == left[1]
             key == t.entry_time \div TicksPerDay
             hits == SelectIdx(cal, {i \in 1..Len(cal) : cal[i].date = key}, 1)
         IN  [i \in 1..Len(hits) |->
                 [entry_time |-> t.entry_time, pnl |-> t.pnl,
                  return_pct |-> t.return_pct, key_0 |-> key,
                  trend |-> hits[i].trend, volatility |-> hits[i].volatility,
                  atr |-> hits[i].atr]]
             \o MergeInner(Tail(left), cal)

\* DataFrame.merge(regimes, left_on=<dates>, right_index=True, how='left'):
\* each left row, in order, once per calendar row of its date, or once with
\* missing cells when the calendar has no such row
RECURSIVE MergeLeft(_, _)
MergeLeft(left, cal) ==
    IF left = <<>> THEN <<>>
    ELSE LET t == left[1]
             key == DateOf(t.entry_time)
             hits == SelectIdx(cal, {i \in 1..Len(cal) : cal[i].date = key}, 1)
             row(trend, vol, atr) ==
                 [entry_time |-> t.entry_time, pnl |-> t.pnl,
                  return_pct |-> t.return_pct, key_0 |-> key,
                  trend |-> trend, volatility |-> vol, atr |-> atr]
         IN  (IF hits = <<>> THEN <<row(NoLabel, NoLabel, NaN)>>
              ELSE [i \in 1..Len(hits) |->
                       row(hits[i].trend, hits[i].volatility, hits[i].atr)])
             \o MergeLeft(Tail(left), cal)

\* lines 155-168: the regime-tagged trade table
TagTrades(trades, cal, capital) ==
    LET analysis == [i \in 1..Len(trades) |->
                        [entry_time |-> trades[i].entry_time, pnl |-> trades[i].pnl,
                         return_pct |-> ReturnPct(trades[i].pnl, capital)]]
        merged == MergeLeft(analysis, cal)
    IN  [i \in 1..Len(merged) |->
            [merged[i] EXCEPT
                !.trend = IF @ = NoLabel THEN TrendRegime[4] ELSE @,
                !.volatility = IF @ = NoLabel THEN "unclassified" ELSE @]]

\* the minimum numbers of trades and of days of lines 60, 74 and 79
MIN_TRADES == 20
MIN_DAYS == 20

NoSharpe == [none |-> TRUE, annualized_return |-> NaN, annualized_vol_sq |-> NaN]

\* groupby(date)['return_pct'].sum() of line 70, with return_pct of line 67
DailyReturns(regime_trades, capital) ==
    LET dates == SortedSeq({DateOf(regime_trades[i].entry_time) :
                               i \in 1..Len(regime_trades)})
    IN  [k \in 1..Len(dates) |->
            RSum(SelectIdx(
                [i \in 1..Len(regime_trades) |->
                    ReturnPct(regime_trades[i].pnl, capital)],
                {i \in 1..Len(regime_trades) :
                    DateOf(regime_trades[i].entry_time) = dates[k]}, 1))]

Mean(s) == RDiv(RSum(s), Rat(Len(s)))

\* Series.std() squared: the sample variance (ddof=1)
Variance(s) ==
    LET m == Mean(s)
    IN  RDiv(RSum([i \in 1..Len(s) |-> RMul(RSub(s[i], m), RSub(s[i], m))]),
             Rat(Len(s) - 1))

\* the estimator refusing a bucket of exactly MIN_TRADES trades
calculate_regime_sharpe_strict(regime_trades, capital) ==
    IF Len(regime_trades) <= MIN_TRADES THEN NoSharpe
    ELSE LET daily_returns == DailyReturns(regime_trades, capital)
         IN  IF Len(daily_returns) < MIN_DAYS \/ Variance(daily_returns).n = 0
             THEN NoSharpe
             ELSE [none |-> FALSE,
                   annualized_return |->
                       RMul(Mean(daily_returns), Rat(Len(daily_returns))),
                   annualized_vol_sq |->
                       RMul(Variance(daily_returns), Rat(Len(daily_returns)))]

\* _calculate_regime_sharpe.  The ratio annualized_return / annualized_vol is
\* kept as its numerator and the square of its denominator.
calculate_regime_sharpe(regime_trades, capital) ==
    IF Len(regime_trades) < MIN_TRADES THEN NoSharpe
    ELSE LET daily_returns == DailyReturns(regime_trades, capital)
             trading_days == Len(daily_returns)
         IN  IF Len(daily_returns) < MIN_DAYS \/ Variance(daily_returns).n = 0
             THEN NoSharpe
             ELSE IF trading_days < MIN_DAYS THEN NoSharpe
             ELSE [none |-> FALSE,
                   annualized_return |->
                       RMul(Mean(daily_returns), Rat(trading_days)),
                   annualized_vol_sq |->
                       RMul(Variance(daily_returns), Rat(trading_days))]

\* the rows of the tagged table whose column col holds label
Bucket(tagged, col, label) ==
    SelectIdx(tagged, {i \in 1..Len(tagged) : tagged[i][col] = label}, 1)

\* RegimeMetrics whose win_rate counts a trade with pnl = 0 as a win
MetricsWinGe(key, bucket, capital) ==
    [key |-> key,
     n_trades |-> Len(bucket),
     win_rate |-> Frac(Cardinality({i \in 1..Len(bucket) : RGe(bucket[i].pnl, Rat(0))}),
                       Len(bucket)),
     avg_pnl |-> RDiv(RSum([i \in 1..Len(bucket) |-> bucket[i].pnl]), Rat(Len(bucket))),
     total_pnl |-> RSum([i \in 1..Len(bucket) |-> bucket[i].pnl]),
     sharpe |-> NoSharpe]

\* RegimeMetrics whose avg_pnl is taken from the return_pct column
MetricsAvgFromReturn(key, bucket, capital) ==
    [key |-> key,
     n_trades |-> Len(bucket),
     win_rate |-> Frac(Cardinality({i \in 1..Len(bucket) : RGt(bucket[i].pnl, Rat(0))}),
                       Len(bucket)),
     avg_pnl |-> RDiv(RSum([i \in 1..Len(bucket) |-> bucket[i].return_pct]),
                      Rat(Len(bucket))),
     total_pnl |-> RSum([i \in 1..Len(bucket) |-> bucket[i].pnl]),
     sharpe |-> NoSharpe]

\* lines 176-182 and 188-194: the RegimeMetrics of a non-empty bucket
Metrics(key, bucket, capital) ==
    [key |-> key,
     n_trades |-> Len(bucket),
     win_rate |-> Frac(Cardinality({i \in 1..Len(bucket) : RGt(bucket[i].pnl, Rat(0))}),
                       Len(bucket)),
     avg_pnl |-> Mean([i \in 1..Len(bucket) |-> bucket[i].pnl]),
     total_pnl |-> RSum([i \in 1..Len(bucket) |-> bucket[i].pnl]),
     sharpe |-> calculate_regime_sharpe(bucket, capital)]

\* a loop over the three day labels only
TrendLoopClassified == {TrendRegime[1], TrendRegime[2], TrendRegime[3]}

\* lines 173-175: the trend labels whose bucket is reported
TrendLoop == Range(TrendRegime)

\* lines 185-187: the volatility labels whose bucket is reported
VolLoop == Range(VolatilityRegime)

\* lines 170-194: the mapping from key to RegimeMetrics, as its set of entries
RegimeResults(tagged, capital) ==
    {Metrics(l \o "_regime", Bucket(tagged, "trend", l), capital) :
        l \in {x \in TrendLoop : Len(Bucket(tagged, "trend", x)) > 0}}
    \cup
    {Metrics(l \o "_vol", Bucket(tagged, "volatility", l), capital) :
        l \in {x \in VolLoop : Len(Bucket(tagged, "volatility", x)) > 0}}

(***************************************************************************)
(* The instance and its callers.                                           *)
(*                                                                         *)
(* data, initial_capital, daily_data and regimes are the fields of the     *)
(* instance; trades_df is the caller's trade log.  returned is the value   *)
(* of the last classify_regimes call, results and trades_with_regimes the  *)
(* pair returned by the last analyze_performance call.  first_calendar     *)
(* (the first calendar classify_regimes computed) and reclassified         *)
(* (classify_regimes ran with a calendar already memoized) record history. *)
(* self.daily_data is set by the constructor, so the daily_data is None    *)
(* branch of lines 122-123 is never taken and the field is kept as rows.   *)
(***************************************************************************)
NoFrame == [none |-> TRUE, rows |-> <<>>]
Some(rows) == [none |-> FALSE, rows |-> rows]
NoResults == [none |-> TRUE, map |-> {}]

\* classify_regimes extending the memoized calendar instead of rebuilding it
classify_regimes_incremental ==
    IF regimes.none THEN RegimeCalendar(daily_data)
    ELSE regimes.rows \o RegimeCalendar(daily_data)

\* the calendar one run of classify_regimes builds from self.daily_data
classify_regimes == RegimeCalendar(daily_data)

\* trades_df.copy() of line 155: the caller's frame after analyze_performance
CallerFrameAfterAnalysis(trades) == trades

\* a call of classify_regimes by the caller
ClassifyRegimes ==
    LET cal == classify_regimes
    IN  /\ regimes' = Some(cal)
        /\ returned' = Some(cal)
        /\ first_calendar' = IF first_calendar.none THEN Some(cal) ELSE first_calendar
        /\ reclassified' = (reclassified \/ ~regimes.none)
        /\ UNCHANGED <<data, initial_capital, daily_data, trades_df, results,
                       trades_with_regimes>>

\* a call of analyze_performance(trades_df) by the caller
AnalyzePerformance ==
    LET cal == IF regimes.none THEN classify_regimes ELSE regimes.rows
        tagged == TagTrades(trades_df, cal, initial_capital)
    IN  /\ regimes' = Some(cal)
        /\ first_calendar' = IF first_calendar.none THEN Some(cal) ELSE first_calendar
        /\ results' = [none |-> FALSE, map |-> RegimeResults(tagged, initial_capital)]
        /\ trades_with_regimes' = Some(tagged)
        /\ trades_df' = CallerFrameAfterAnalysis(trades_df)
        /\ UNCHANGED <<data, initial_capital, daily_data, returned, reclassified>>

Next == ClassifyRegimes \/ AnalyzePerformance

\* __init__: the state after MarketAnalysis(d, capital), before any call
Constructed(d, capital) ==
    /\ data = d
    /\ initial_capital = capital
    /\ daily_data = prepare_daily_data(d)
    /\ regimes = NoFrame
    /\ returned = NoFrame
    /\ results = NoResults
    /\ trades_with_regimes = NoFrame
    /\ first_calendar = NoFrame
    /\ reclassified = FALSE

(***************************************************************************)
(* Inputs.                                                                 *)
(***************************************************************************)
MaxDate == 2
MaxTrades == 2
MaxDays == 3
MaxAtrDays == 5
MaxBars == 3
Slack == 2
MaxPerDay == 2

Capitals == {Rat(100), Rat(200)}
PnLs == {Rat(-1), Rat(0), Rat(2)}

Bar(date, o, h, l, c, v) ==
    [date |-> date, open |-> o, high |-> h, low |-> l, close |-> c, volume |-> v]

\* a bar that closes at c with its high and low s away
Candle(date, c, s) == Bar(date, Rat(c), Rat(c + s), Rat(c - s), Rat(c), Rat(1))

\* a date-keyed frame with one candle on each date that has a shape
Absent == [c |-> 0, s |-> -1]
CandleFrame(shape) ==
    LET ds == SortedSeq({d \in DOMAIN shape : shape[d] # Absent})
    IN  [has_date |-> TRUE,
         rows |-> [i \in 1..Len(ds) |-> Candle(ds[i], shape[ds[i]].c, shape[ds[i]].s)]]

\* the trade logs of at most n trades over a set of entry times, in time order
TradeLogs(times, n) ==
    {s \in UNION {[1..k -> [entry_time : times, pnl : PnLs]] : k \in 0..n} :
        \A i \in 1..(Len(s) - 1) : s[i].entry_time <= s[i + 1].entry_time}

\* Spec: candles on some of the dates 1..MaxDate, so that a trade date can lie
\* before the calendar, after it, or on a day it skips; trades at both ticks of
\* date 1 and at the first tick of date 2; the default-scale capital
Shapes == {[c |-> 1, s |-> 0], [c |-> 55, s |-> 2]}
EntryTimes == TicksPerDay..(2 * TicksPerDay)

Init ==
    \E shape \in [1..MaxDate -> Shapes \cup {Absent}] :
        /\ Constructed(CandleFrame(shape), Rat(100))
        /\ \E trades \in TradeLogs(EntryTimes, MaxTrades) : trades_df = trades

Spec == Init /\ [][Next]_vars

\* SpecTrend: a candle with high = low = close on each of the first n dates
TrendCloses == {1, 11, 12, 22}

InitTrend ==
    \E n \in 1..MaxDays : \E closes \in [1..n -> TrendCloses] :
        /\ Constructed([has_date |-> TRUE,
                        rows |-> [i \in 1..n |-> Candle(i, closes[i], 0)]],
                       Rat(100))
        /\ trades_df = <<>>

SpecTrend == InitTrend /\ [][Next]_vars

\* a frame without a 'date' column: the caller supplies the daily rows, the
\* indicator columns included, indexed by date
DailyRow(date, close, ma_short, ma_long, atr) ==
    [date |-> date, open |-> close, high |-> close, low |-> close, close |-> close,
     volume |-> Rat(1), ma_short |-> ma_short, ma_long |-> ma_long, atr |-> atr]

\* SpecVol: daily rows on the dates 1..n whose atr column is any series over AtrValues
AtrValues == {1, 2, 3}

InitVol ==
    \E n \in 1..MaxAtrDays : \E atr \in [1..n -> AtrValues] :
        /\ Constructed([has_date |-> FALSE,
                        rows |-> [i \in 1..n |->
                                     DailyRow(i, Rat(1), Rat(1), Rat(1), Rat(atr[i]))]],
                       Rat(100))
        /\ trades_df = <<>>

SpecVol == InitVol /\ [][Next]_vars

\* SpecDaily: intraday bars in time order over the dates 1..2, cells possibly missing
BarShapes ==
    {[o |-> Rat(2), h |-> Rat(3), l |-> Rat(1), c |-> Rat(2)],
     [o |-> Rat(4), h |-> Rat(5), l |-> Rat(4), c |-> Rat(5)],
     [o |-> NaN, h |-> NaN, l |-> NaN, c |-> NaN],
     [o |-> Rat(6), h |-> NaN, l |-> Rat(6), c |-> Rat(6)],
     [o |-> Rat(2), h |-> Rat(2), l |-> NaN, c |-> NaN]}

InitDaily ==
    \E n \in 0..MaxBars :
      \E dates \in {f \in [1..n -> 1..2] : \A i \in 1..(n - 1) : f[i] <= f[i + 1]},
         shape \in [1..n -> BarShapes], keyed \in BOOLEAN :
        /\ Constructed(
               IF keyed
               THEN [has_date |-> TRUE,
                     rows |-> [i \in 1..n |->
                                  Bar(dates[i], shape[i].o, shape[i].h, shape[i].l,
                                      shape[i].c, Rat(1))]]
               ELSE [has_date |-> FALSE,
                     rows |-> [i \in 1..n |->
                                  DailyRow(i, shape[i].c, shape[i].c, shape[i].o, Rat(1))]],
               Rat(100))
        /\ trades_df = <<>>

SpecDaily == InitDaily /\ [][Next]_vars

\* SpecSharpe: a calendar whose first MIN_DAYS - 1 days are downtrend days and
\* whose later days are uptrend days, all of one volatility; and a log of n
\* trades, per_day of them on each date from date 1 on, with pnl a and b in turn
CalendarDays == MIN_DAYS + Slack + 1

SharpeCalendarRow(i) ==
    IF i < MIN_DAYS THEN DailyRow(i, Rat(1), Rat(1), Rat(1), Rat(1))
    ELSE DailyRow(i, Rat(2), Rat(i), Rat(1), Rat(1))

SharpeTrades(n, per_day, a, b) ==
    [i \in 1..n |->
        [entry_time |-> (((i - 1) \div per_day) + 1) * TicksPerDay
                        + (((i - 1) % per_day) % TicksPerDay),
         pnl |-> IF i % 2 = 1 THEN a ELSE b]]

InitSharpe ==
    \E n \in (MIN_TRADES - Slack)..(MIN_TRADES + Slack), per_day \in 1..MaxPerDay,
       a \in PnLs, b \in PnLs, capital \in Capitals :
        /\ Constructed([has_date |-> FALSE,
                        rows |-> [i \in 1..CalendarDays |-> SharpeCalendarRow(i)]],
                       capital)
        /\ trades_df = SharpeTrades(n, per_day, a, b)

SpecSharpe == InitSharpe /\ [][Next]_vars

(***************************************************************************)
(* Properties of analyze_performance (Spec).                               *)
(***************************************************************************)
\* the calendar rows of the date of an entry time
RowsOfDate(cal, entry_time) ==
    {k \in 1..Len(cal) : cal[k].date = entry_time \div TicksPerDay}

Analyzed == ~results.none /\ ~trades_with_regimes.none /\ ~regimes.none

\* C1: the regime-tagged table holds the trades of the log, each once and in
\* order; a trade is 'unclassified' in trend and in volatility exactly when the
\* calendar has no row for the date of its entry_time, and otherwise carries
\* the trend and the volatility of that row.
C1_EachTradeTaggedOnce ==
    Analyzed =>
        LET t == trades_with_regimes.rows
            cal == regimes.rows
        IN  /\ Len(t) = Len(trades_df)
            /\ \A i \in 1..Len(t) :
                /\ t[i].entry_time = trades_df[i].entry_time
                /\ t[i].pnl = trades_df[i].pnl
                /\ (t[i].trend = "unclassified" /\ t[i].volatility = "unclassified")
                       <=> RowsOfDate(cal, t[i].entry_time) = {}
                /\ t[i].trend = "unclassified" <=> t[i].volatility = "unclassified"
                /\ \A k \in RowsOfDate(cal, t[i].entry_time) :
                       t[i].trend = cal[k].trend /\ t[i].volatility = cal[k].volatility

\* C1 witness: two trades entered at different times of one date that has a
\* calendar row, both tagged with it
C1_Witness ==
    /\ Analyzed
    /\ Len(trades_with_regimes.rows) = 2
    /\ trades_df[1].entry_time # trades_df[2].entry_time
    /\ LET t == trades_with_regimes.rows
       IN  /\ RowsOfDate(regimes.rows, t[1].entry_time) # {}
           /\ RowsOfDate(regimes.rows, t[1].entry_time)
                  = RowsOfDate(regimes.rows, t[2].entry_time)
           /\ t[1].trend = t[2].trend /\ t[1].trend # "unclassified"

\* the trades of the log whose entry date has no calendar row
UnmatchedTrades ==
    {i \in 1..Len(trades_df) : RowsOfDate(regimes.rows, trades_df[i].entry_time) = {}}

\* the trades of the log whose entry date has a calendar row with this label
MatchedTrades(col, label) ==
    {i \in 1..Len(trades_df) :
        \E k \in RowsOfDate(regimes.rows, trades_df[i].entry_time) :
            regimes.rows[k][col] = label}

\* C2 as claimed: no entry of the metrics mapping is made of the unclassified
\* trades, and every trade counted in a bucket has a regime row for its date.
C2_NoUnclassifiedBucket ==
    Analyzed =>
        \A e \in results.map :
            /\ e.key \notin {"unclassified_regime", "unclassified_vol"}
            /\ \E col \in {"trend", "volatility"} : \E label \in {"uptrend", "downtrend",
                   "sideways", "high", "medium", "low"} :
                   e.n_trades = Cardinality(MatchedTrades(col, label))

\* C2 amended: the mapping never has the key 'unclassified_vol'; it has the key
\* 'unclassified_regime' exactly when some trade's entry date has no regime
\* row, and that entry counts exactly those trades; every other entry counts
\* exactly the trades whose entry date has a regime row with the entry's label.
C2_UnclassifiedOnlyInTrendBucket ==
    Analyzed =>
        /\ \A e \in results.map : e.key # "unclassified_vol"
        /\ (\E e \in results.map : e.key = "unclassified_regime") <=> UnmatchedTrades # {}
        /\ \A e \in results.map :
            /\ e.key = "unclassified_regime" => e.n_trades = Cardinality(UnmatchedTrades)
            /\ \A l \in {"uptrend", "downtrend", "sideways"} :
                   e.key = l \o "_regime" =>
                       e.n_trades = Cardinality(MatchedTrades("trend", l))
            /\ \A l \in {"high", "medium", "low"} :
                   e.key = l \o "_vol" =>
                       e.n_trades = Cardinality(MatchedTrades("volatility", l))
            /\ e.key \in {l \o "_regime" : l \in {"uptrend", "downtrend", "sideways",
                                                  "unclassified"}}
                         \cup {l \o "_vol" : l \in {"high", "medium", "low"}}

\* C2 witness: one trade without a regime row and one with, so the mapping has
\* the unclassified trend entry beside a classified one
C2_Witness ==
    /\ Analyzed
    /\ Cardinality(UnmatchedTrades) = 1
    /\ Len(trades_df) = 2
    /\ \E e \in results.map : e.key = "unclassified_regime" /\ e.n_trades = 1
    /\ \E e \in results.map : e.key = "high_vol" /\ e.n_trades = 1

\* the tagged trades carrying a label
Carriers(col, label) ==
    {i \in 1..Len(trades_with_regimes.rows) : trades_with_regimes.rows[i][col] = label}

\* C6: the mapping has an entry for a label of TrendRegime or VolatilityRegime
\* exactly when some tagged trade carries the label; an entry's n_trades is
\* the number of those trades (at least 1), its win_rate the share of them with
\* pnl > 0 (within [0,1]), and total_pnl = avg_pnl * n_trades; the empty log
\* gives the empty mapping.
C6_BucketsOfCarriedLabels ==
    Analyzed =>
        LET t == trades_with_regimes.rows
            entry(col, suffix, l) ==
                LET es == {e \in results.map : e.key = l \o suffix}
                    c == Carriers(col, l)
                IN  /\ es # {} <=> c # {}
                    /\ Cardinality(es) <= 1
                    /\ \A e \in es :
                        /\ e.n_trades = Cardinality(c) /\ e.n_trades >= 1
                        /\ e.win_rate
                             = Frac(Cardinality({i \in c : t[i].pnl.n > 0}), e.n_trades)
                        /\ RGe(e.win_rate, Rat(0)) /\ RLe(e.win_rate, Rat(1))
                        /\ e.total_pnl = RMul(e.avg_pnl, Rat(e.n_trades))
                        /\ e.total_pnl = RSum([i \in 1..Len(t) |->
                               IF i \in c THEN t[i].pnl ELSE Rat(0)])
        IN  /\ \A l \in {"uptrend", "downtrend", "sideways", "unclassified"} :
                   entry("trend", "_regime", l)
            /\ \A l \in {"high", "medium", "low"} : entry("volatility", "_vol", l)
            /\ Cardinality(results.map)
                 = Cardinality({l \in {"uptrend", "downtrend", "sideways", "unclassified"} :
                                   Carriers("trend", l) # {}})
                   + Cardinality({l \in {"high", "medium", "low"} :
                                     Carriers("volatility", l) # {}})
            /\ trades_df = <<>> => results.map = {}

\* C6 witness: a bucket of two trades, one won and one with pnl = 0
C6_Witness ==
    /\ Analyzed
    /\ \E e \in results.map :
           /\ e.n_trades = 2 /\ e.win_rate = Frac(1, 2)
           /\ \E i \in 1..Len(trades_df) : trades_df[i].pnl = Rat(0)

\* the entries of a mapping without their sharpe
NonSharpe(map) ==
    {[key |-> e.key, n_trades |-> e.n_trades, win_rate |-> e.win_rate,
      avg_pnl |-> e.avg_pnl, total_pnl |-> e.total_pnl] : e \in map}

\* the labels of a tagged table
Labels(rows) == [i \in 1..Len(rows) |-> <<rows[i].trend, rows[i].volatility>>]

\* C8: an instance on the same price series with any other initial_capital
\* returns, for the same trade log, the same keys with the same n_trades,
\* win_rate, avg_pnl and total_pnl, and the same labels on every trade.
C8_CapitalOnlyInReturns ==
    Analyzed =>
        \A c \in Capitals :
            LET other == TagTrades(trades_df, RegimeCalendar(daily_data), c)
            IN  /\ NonSharpe(RegimeResults(other, c)) = NonSharpe(results.map)
                /\ Labels(other) = Labels(trades_with_regimes.rows)

\* C8 witness: a run with a non-empty mapping whose return_pct column differs
\* from the one another capital gives
C8_Witness ==
    /\ Analyzed
    /\ results.map # {}
    /\ \E c \in Capitals : \E i \in 1..Len(trades_df) :
           /\ c # initial_capital
           /\ trades_with_regimes.rows[i].return_pct # ReturnPct(trades_df[i].pnl, c)

Classified == ~regimes.none

\* C3: the calendar labels every day of the daily series, and the label is
\* uptrend if close > ma_long and ma_short > the previous day's ma_short (false
\* on the first day), downtrend if neither holds, sideways if exactly one
\* holds; so no day is 'unclassified'.
C3_TrendRule ==
    Classified =>
        LET cal == regimes.rows
        IN  /\ Len(cal) = Len(daily_data)
            /\ \A i \in 1..Len(cal) :
                LET above_long == RGt(daily_data[i].close, daily_data[i].ma_long)
                    rising_short == /\ i > 1
                                    /\ RGt(daily_data[i].ma_short,
                                           daily_data[i - 1].ma_short)
                IN  /\ cal[i].date = daily_data[i].date
                    /\ cal[i].trend \in {"uptrend", "downtrend", "sideways"}
                    /\ (above_long /\ rising_short) <=> cal[i].trend = "uptrend"
                    /\ (~above_long /\ ~rising_short) <=> cal[i].trend = "downtrend"
                    /\ (above_long # rising_short) <=> cal[i].trend = "sideways"

\* C3 witness: a calendar with an uptrend day, a downtrend day and a day that
\* is sideways because exactly one of the two conditions holds
C3_Witness ==
    /\ Classified
    /\ \E i \in 1..Len(regimes.rows) : regimes.rows[i].trend = "uptrend"
    /\ \E i \in 1..Len(regimes.rows) : regimes.rows[i].trend = "downtrend"
    /\ \E i \in 2..Len(regimes.rows) :
           /\ regimes.rows[i].trend = "sideways"
           /\ RGt(daily_data[i].close, daily_data[i].ma_long)
                  # RGt(daily_data[i].ma_short, daily_data[i - 1].ma_short)

StrictlyIncreasingCloses ==
    \A i \in 1..(Len(data.rows) - 1) : RLt(data.rows[i].close, data.rows[i + 1].close)

\* C10: on a daily series with strictly increasing closes, every date after
\* the first has a calendar row labelled uptrend, and the first date has a
\* calendar row that is not labelled uptrend.
C10_IncreasingClosesUptrend ==
    (Classified /\ StrictlyIncreasingCloses) =>
        \A i \in 1..Len(data.rows) :
            \E k \in 1..Len(regimes.rows) :
                /\ regimes.rows[k].date = data.rows[i].date
                /\ i > 1 => regimes.rows[k].trend = "uptrend"
                /\ i = 1 => regimes.rows[k].trend # "uptrend"

\* C10 witness: a classified series of three strictly increasing closes
C10_Witness ==
    /\ Classified /\ StrictlyIncreasingCloses
    /\ Len(data.rows) >= 3
    /\ regimes.rows[Len(regimes.rows)].trend = "uptrend"

\* C4 as claimed: a day is low if its ATR <= the 33rd percentile, otherwise
\* high if its ATR >= the 67th percentile, otherwise medium.
C4_LowTestFirst ==
    Classified =>
        LET atr == [i \in 1..Len(daily_data) |-> daily_data[i].atr]
            q33 == Quantile(atr, Q_LOW)
            q67 == Quantile(atr, Q_HIGH)
        IN  \A i \in 1..Len(regimes.rows) :
                regimes.rows[i].volatility =
                    IF QuantileCmp(atr[i], q33) <= 0 THEN "low"
                    ELSE IF QuantileCmp(atr[i], q67) >= 0 THEN "high"
                    ELSE "medium"

\* C4 failing state: a day whose ATR equals both percentiles, which passes the
\* low test and is labelled high
C4_Witness ==
    /\ Classified
    /\ LET atr == [i \in 1..Len(daily_data) |-> daily_data[i].atr]
           q33 == Quantile(atr, Q_LOW)
           q67 == Quantile(atr, Q_HIGH)
       IN  \E i \in 1..Len(regimes.rows) :
               /\ QuantileCmp(atr[i], q33) = 0 /\ QuantileCmp(atr[i], q67) = 0
               /\ regimes.rows[i].volatility = "high"
               /\ \E j \in 1..Len(regimes.rows) : atr[j] # atr[i]

(***************************************************************************)
(* Properties of _calculate_regime_sharpe (SpecSharpe).                    *)
(***************************************************************************)
\* the entry dates of a set of tagged trades, ascending
DatesOf(c) ==
    SortedSeq({trades_with_regimes.rows[i].entry_time \div TicksPerDay : i \in c})

\* the sum of the return_pct column over the trades of c entered on date d
ReturnOn(c, d) ==
    RSum([i \in 1..Len(trades_with_regimes.rows) |->
            IF i \in c /\ trades_with_regimes.rows[i].entry_time \div TicksPerDay = d
            THEN trades_with_regimes.rows[i].return_pct ELSE Rat(0)])

InputDates == {data.rows[i].date : i \in 1..Len(data.rows)}

\* the bars of date d whose cell col is present
Present(d, col) ==
    {i \in 1..Len(data.rows) : data.rows[i].date = d /\ ~IsNaN(data.rows[i][col])}

\* the aggregate of column col over the present cells of a date that has some
DayValue(d, col) ==
    LET p == Present(d, col)
        first == CHOOSE i \in p : \A j \in p : i <= j
        last == CHOOSE i \in p : \A j \in p : i >= j
    IN  CASE col = "open" -> data.rows[first].open
          [] col = "close" -> data.rows[last].close
          [] col = "high" ->
                 data.rows[CHOOSE i \in p :
                     \A j \in p : RGe(data.rows[i].high, data.rows[j].high)].high
          [] col = "low" ->
                 data.rows[CHOOSE i \in p :
                     \A j \in p : RLe(data.rows[i].low, data.rows[j].low)].low

\* the dates up to d on which column col has a present cell
Sources(d, col) == {e \in InputDates : e <= d /\ Present(e, col) # {}}

Prices == {"open", "high", "low", "close"}

RowsOn(d) == {k \in 1..Len(daily_data) : daily_data[k].date = d}

\* C7 as claimed: the daily data has exactly one row for every date of the
\* input, holding the first open, the highest high, the lowest low and the
\* last close of that date, with high >= low; a series without a date key is
\* passed through unchanged.
C7_OneRowPerInputDate ==
    /\ data.has_date =>
        \A d \in InputDates :
            /\ Cardinality(RowsOn(d)) = 1
            /\ \A k \in RowsOn(d) :
                /\ \A col \in Prices :
                       Present(d, col) # {} /\ daily_data[k][col] = DayValue(d, col)
                /\ RGe(daily_data[k].high, daily_data[k].low)
    /\ ~data.has_date => daily_data = data.rows

\* C7, what _prepare_daily_data guarantees instead: for a series with a date
\* key the daily data holds, in date order, at most one row per date and only dates of the input; a date has its
\* row exactly when each of open, high, low, close is present on that date or
\* an earlier one; each cell of the row is the aggregate (first open, highest
\* high, lowest low, last close over present cells) of the latest date up to
\* its own on which the column is present; and high >= low holds for a date
\* on which no bar misses its high or low.  A series without a date key is
\* passed through with the rows that miss a cell removed.
C7_OneRowPerCompleteDate ==
    /\ data.has_date =>
        /\ \A k \in 1..Len(daily_data) : daily_data[k].date \in InputDates
        /\ \A k \in 1..(Len(daily_data) - 1) :
               daily_data[k].date < daily_data[k + 1].date
        /\ \A d \in InputDates :
            /\ Cardinality(RowsOn(d)) <= 1
            /\ RowsOn(d) # {} <=> \A col \in Prices : Sources(d, col) # {}
            /\ \A k \in RowsOn(d) :
                /\ \A col \in Prices :
                       LET src == CHOOSE e \in Sources(d, col) :
                                      \A g \in Sources(d, col) : g <= e
                       IN  daily_data[k][col] = DayValue(src, col)
                /\ (\A i \in 1..Len(data.rows) :
                        data.rows[i].date = d =>
                            ~IsNaN(data.rows[i].high) /\ ~IsNaN(data.rows[i].low))
                       => RGe(daily_data[k].high, daily_data[k].low)
    /\ ~data.has_date =>
        daily_data = SelectIdx(data.rows,
                               {i \in 1..Len(data.rows) :
                                   \A col \in Columns : ~IsNaN(data.rows[i][col])}, 1)

\* C7 failing state: every input bar that has both cells has high >= low, yet
\* the row of a date whose bar misses its high takes the previous date's high
\* by the column-wise forward fill and ends with high < low
C7_Witness ==
    /\ data.has_date
    /\ \A i \in 1..Len(data.rows) :
           (~IsNaN(data.rows[i].high) /\ ~IsNaN(data.rows[i].low))
               => RGe(data.rows[i].high, data.rows[i].low)
    /\ \E k \in 1..Len(daily_data) :
           /\ RLt(daily_data[k].high, daily_data[k].low)
           /\ Present(daily_data[k].date, "high") = {}
           /\ Present(daily_data[k].date, "low") # {}

====
